---- MODULE Spec2Model ----
(***************************************************************************)
(* Model of iotkitclient/device.py: the Device proxy object, its           *)
(* constructor, equality, JSON decoding and its five remote operations.    *)
(*                                                                         *)
(* Python values are records [t |-> type name, v |-> sequence of tokens]:  *)
(* a str is the sequence of its pieces, a list or dict the sequence of its *)
(* items.  An object's __dict__ is a function from attribute names to      *)
(* values; a JSON mapping or a keyword-argument set is a function too.     *)
(***************************************************************************)
EXTENDS Integers, Sequences, FiniteSets, TLC

VARIABLES
    dev,         \* the Device object's __dict__
    log,         \* the record of the last call made on it
    uuid_state,  \* how many uuid4() draws have been made
    generated,   \* the cids add_component drew and sent, in order
    last_sent,   \* per field, the last truthy value a successful set_properties sent
    ctor         \* what the constructor was given, and the __dict__ it left

vars == <<dev, log, uuid_state, generated, last_sent, ctor>>

(* ------------------------------------------------------------------ *)
(* Bounds                                                             *)
(* ------------------------------------------------------------------ *)

\* Number of uuid4() draws followed in one behaviour.
MaxUuid == 2

(* ------------------------------------------------------------------ *)
(* Python values                                                      *)
(* ------------------------------------------------------------------ *)

None == [t |-> "NoneType", v |-> <<>>]

Str(s) == [t |-> "str", v |-> s]

List(s) == [t |-> "list", v |-> s]

Dict(s) == [t |-> "dict", v |-> s]

\* bool(x) as Python computes it for the value kinds used here.
Truthy(x) ==
    CASE x.t = "NoneType" -> FALSE
      [] x.t \in {"str", "list", "dict"} -> Len(x.v) > 0
      [] OTHER -> TRUE

\* "{}".format(x): the text str(x) puts in place of the braces.
Format(x) ==
    CASE x.t = "NoneType" -> <<"None">>
      [] OTHER -> x.v

\* The empty mapping ({} in Python, no keyword arguments, no request data).
NoDict == [k \in {} |-> None]

\* d.get(k): the value at k, None when k is missing.
Get(d, k) == IF k \in DOMAIN d THEN d[k] ELSE None

\* d.update(p): the entries of p laid over those of d.
Update(d, p) ==
    [k \in DOMAIN d \cup DOMAIN p |-> IF k \in DOMAIN p THEN p[k] ELSE d[k]]

\* An Account object: oid is the object's identity, account_id its id field.
Account(oid, id) ==
    [t |-> "Account", v |-> <<>>, oid |-> oid, account_id |-> id,
     client |-> [t |-> "Client", v |-> <<>>]]

\* An int (epoch milliseconds).
PyInt(n) == [t |-> "int", v |-> <<>>, n |-> n]

\* A datetime, to the microsecond.
Datetime(sec, usec) == [t |-> "datetime", v |-> <<>>, sec |-> sec, usec |-> usec]

\* datetime.fromtimestamp(ms / 1e3)
FromTimestampMs(ms) == Datetime(ms \div 1000, (ms % 1000) * 1000)

\* A bool, and the NotImplemented singleton.
Bool(b) == [t |-> "bool", v |-> <<>>, b |-> b]

NotImplemented == [t |-> "NotImplementedType", v |-> <<>>]

\* A Device object around its __dict__, and a decoded JSON body.
Object(d) == [t |-> "Device", v |-> <<>>, d |-> d]

Json(d) == [t |-> "json", v |-> <<>>, d |-> d]

(* ------------------------------------------------------------------ *)
(* Collaborators                                                      *)
(* ------------------------------------------------------------------ *)

\* Status codes the server answers with.
Statuses == {200, 201, 204, 404}

\* One step a call takes outside the object: a request handed to the
\* client, a call to the account, a uuid4() draw.
Event(kind, url, data, expect) ==
    [kind |-> kind, url |-> url, data |-> data, expect |-> expect]

\* client.<method>(url, data, expect=...): raises UnexpectedResponseError
\* when the status is not the expected one.
ClientRaises(status, expect) == status # expect

\* Account.__eq__: accounts are identified by their account id.
AccountEq(a, b) == a.account_id = b.account_id

\* str(uuid.uuid4()) on the n-th draw: a value no other draw returns.
Uuid4(n) == Str(<<"uuid4-", ToString(n)>>)

(* ------------------------------------------------------------------ *)
(* Device.__init__, __eq__, from_json                                 *)
(* ------------------------------------------------------------------ *)

\* Variant: the two ids in each other's place.
DeviceUrlSwapped(account, device_id) ==
    Str(<<"/accounts/">> \o Format(device_id)
        \o <<"/devices/">> \o Format(account.account_id))

\* "/accounts/{}/devices/{}".format(account.account_id, device_id)
DeviceUrl(account, device_id) ==
    Str(<<"/accounts/">> \o Format(account.account_id)
        \o <<"/devices/">> \o Format(device_id))

\* Device.__init__; created_on / 1e3 is defined for numbers only and
\* raises TypeError for None.
DeviceInit(account, device_id, name, status, gateway_id, domain_id, created_on) ==
    IF created_on.t # "datetime" /\ created_on.t # "int"
    THEN [exc |-> "TypeError", obj |-> None]
    ELSE [exc |-> "none",
          obj |-> Object(
            [account    |-> account,
             client     |-> account.client,
             device_id  |-> device_id,
             name       |-> name,
             status     |-> status,
             gateway_id |-> gateway_id,
             domain_id  |-> domain_id,
             created_on |-> IF created_on.t = "datetime" THEN created_on
                            ELSE FromTimestampMs(created_on.n),
             url        |-> DeviceUrl(account, device_id)])]

\* a == b between two tuple elements: identity first, then the type's __eq__.
ElemEq(a, b) ==
    \/ a = b
    \/ a.t = "Account" /\ b.t = "Account" /\ AccountEq(a, b)

\* Variant: status compared too.
DeviceEqWithStatus(self, other) ==
    IF other.t # "Device" THEN NotImplemented
    ELSE Bool(/\ ElemEq(self.d["name"], other.d["name"])
              /\ ElemEq(self.d["account"], other.d["account"])
              /\ ElemEq(self.d["device_id"], other.d["device_id"])
              /\ ElemEq(self.d["status"], other.d["status"]))

\* Device.__eq__
DeviceEq(self, other) ==
    IF other.t # "Device" THEN NotImplemented
    ELSE Bool(/\ ElemEq(self.d["name"], other.d["name"])
              /\ ElemEq(self.d["account"], other.d["account"])
              /\ ElemEq(self.d["device_id"], other.d["device_id"]))

\* Device.from_json
FromJson(account, json_dict) ==
    DeviceInit(account,
               Get(json_dict, "deviceId"),
               Get(json_dict, "name"),
               Get(json_dict, "status"),
               Get(json_dict, "gatewayId"),
               Get(json_dict, "domainId"),
               Get(json_dict, "created"))

(* ------------------------------------------------------------------ *)
(* The remote operations.  Each takes the object's __dict__ (self),   *)
(* the keyword arguments given (args) and what the collaborators      *)
(* answer, and yields the __dict__ after the call together with the   *)
(* record of the call: the steps taken outside the object in order    *)
(* (trace), the exception raised (exc) and the value returned.        *)
(* ------------------------------------------------------------------ *)

Call(op, self, args, trace, status, body, exc, result, after) ==
    [dev |-> after,
     log |-> [op |-> op, args |-> args, before |-> self, trace |-> trace,
              status |-> status, body |-> body, exc |-> exc,
              result |-> result]]

\* url + suffix
Concat(url, suffix) == Str(url.v \o suffix)

\* Variant: delete taking 200 for success.
DeleteExpect200(self, status) ==
    LET req == Event("DELETE", self["url"], NoDict, 200)
    IN  IF ClientRaises(status, req.expect)
        THEN Call("delete", self, NoDict, <<req>>, status, NoDict,
                  "UnexpectedResponseError", None, self)
        ELSE Call("delete", self, NoDict, <<req>>, status, NoDict,
                  "none", None, self)

\* Device.delete
Delete(self, status) ==
    LET req == Event("DELETE", self["url"], NoDict, 204)
    IN  IF ClientRaises(status, req.expect)
        THEN Call("delete", self, NoDict, <<req>>, status, NoDict,
                  "UnexpectedResponseError", None, self)
        ELSE Call("delete", self, NoDict, <<req>>, status, NoDict,
                  "none", None, self)

\* account.get_activation_code() as a step of the trace, with the code it
\* returned (none when it raised).
GetCode(acct) ==
    Event("get_activation_code", None,
          IF acct.exc = "none" THEN [code |-> acct.code] ELSE NoDict, 0)

\* The part of activate after the activation code is known.
ActivatePut(self, args, pre, code, status, body) ==
    LET endpoint == Concat(self["url"], <<"/activation">>)
        payload  == [activationCode |-> code]
        req      == Event("PUT", endpoint, payload, 200)
    IN  IF ClientRaises(status, req.expect)
        THEN Call("activate", self, args, pre \o <<req>>, status, body,
                  "UnexpectedResponseError", None, self)
        ELSE Call("activate", self, args, pre \o <<req>>, status, body,
                  "none", Get(body, "deviceToken"), self)

\* Variant: the account is asked whenever the code given is falsy.
ActivateIfFalsy(self, args, acct, status, body) ==
    LET activation_code == Get(args, "activation_code")
    IN  IF ~Truthy(activation_code)
        THEN IF acct.exc # "none"
             THEN Call("activate", self, args, <<GetCode(acct)>>, 0, NoDict,
                       acct.exc, None, self)
             ELSE ActivatePut(self, args, <<GetCode(acct)>>, acct.code, status, body)
        ELSE ActivatePut(self, args, <<>>, activation_code, status, body)

\* Device.activate.  acct is what account.get_activation_code() does: it
\* returns acct.code, or raises acct.exc.
Activate(self, args, acct, status, body) ==
    LET activation_code == Get(args, "activation_code")
    IN  IF activation_code = None
        THEN IF acct.exc # "none"
             THEN Call("activate", self, args, <<GetCode(acct)>>, 0, NoDict,
                       acct.exc, None, self)
             ELSE ActivatePut(self, args, <<GetCode(acct)>>, acct.code, status, body)
        ELSE ActivatePut(self, args, <<>>, activation_code, status, body)

\* The parameters of set_properties, all defaulting to None.
PropertyParams == {"gateway_id", "name", "loc", "tags", "attributes"}

\* locals() on entry to set_properties.
SetPropertiesLocals(self, args) ==
    [k \in {"self"} \cup PropertyParams |->
        IF k = "self" THEN Object(self) ELSE Get(args, k)]

\* The mapping d cut down to keys.
Restrict(d, keys) == [k \in keys |-> d[k]]

\* Variant: only None is dropped.
SetPropertiesPayloadNotNone(locals) ==
    Restrict(locals, {k \in DOMAIN locals : k # "self" /\ locals[k] # None})

\* {k: v for k, v in locals().items() if k != "self" and v}
SetPropertiesPayload(locals) ==
    Restrict(locals, {k \in DOMAIN locals : k # "self" /\ Truthy(locals[k])})

\* Variant: the fields are updated before the answer is looked at.
SetPropertiesUpdateFirst(self, args, status) ==
    LET payload == SetPropertiesPayload(SetPropertiesLocals(self, args))
        req     == Event("PUT", self["url"], payload, 200)
    IN  IF ClientRaises(status, req.expect)
        THEN Call("set_properties", self, args, <<req>>, status, NoDict,
                  "UnexpectedResponseError", None, Update(self, payload))
        ELSE Call("set_properties", self, args, <<req>>, status, NoDict,
                  "none", None, Update(self, payload))

\* Variant: every local, falsy ones too, is laid over the fields.
SetPropertiesReplace(self, args, status) ==
    LET payload == SetPropertiesPayload(SetPropertiesLocals(self, args))
        req     == Event("PUT", self["url"], payload, 200)
    IN  IF ClientRaises(status, req.expect)
        THEN Call("set_properties", self, args, <<req>>, status, NoDict,
                  "UnexpectedResponseError", None, self)
        ELSE Call("set_properties", self, args, <<req>>, status, NoDict,
                  "none", None, Update(self, SetPropertiesLocals(self, args)))

\* Device.set_properties
SetProperties(self, args, status) ==
    LET payload == SetPropertiesPayload(SetPropertiesLocals(self, args))
        req     == Event("PUT", self["url"], payload, 200)
    IN  IF ClientRaises(status, req.expect)
        THEN Call("set_properties", self, args, <<req>>, status, NoDict,
                  "UnexpectedResponseError", None, self)
        ELSE Call("set_properties", self, args, <<req>>, status, NoDict,
                  "none", None, Update(self, payload))

\* The part of add_component after cid is settled; pre holds the uuid4()
\* draw when there was one.
AddComponentPost(self, args, pre, cid, status, body) ==
    LET endpoint == Concat(self["url"], <<"/components">>)
        payload  == [cid |-> cid, name |-> args["name"],
                     type |-> args["component_type"]]
        req      == Event("POST", endpoint, payload, 201)
    IN  IF ClientRaises(status, req.expect)
        THEN Call("add_component", self, args, pre \o <<req>>, status, body,
                  "UnexpectedResponseError", None, self)
        ELSE Call("add_component", self, args, pre \o <<req>>, status, body,
                  "none", Json(body), self)

\* str(uuid.uuid4()) as a step of the trace.
Draw == Event("uuid4", None, NoDict, 0)

\* Variant: an identifier is drawn only when cid is None.
AddComponentIfNone(self, args, uuid, status, body) ==
    LET cid == Get(args, "cid")
    IN  IF cid = None
        THEN AddComponentPost(self, args, <<Draw>>, uuid, status, body)
        ELSE AddComponentPost(self, args, <<>>, cid, status, body)

\* Device.add_component.  uuid is what str(uuid.uuid4()) returns if drawn.
AddComponent(self, args, uuid, status, body) ==
    LET cid == Get(args, "cid")
    IN  IF ~Truthy(cid)
        THEN AddComponentPost(self, args, <<Draw>>, uuid, status, body)
        ELSE AddComponentPost(self, args, <<>>, cid, status, body)

\* Device.delete_component, with
\* "{}/components/{}".format(self.url, component_id)
DeleteComponent(self, args, status) ==
    LET endpoint == Str(Format(self["url"]) \o <<"/components/">>
                        \o Format(args["component_id"]))
        req      == Event("DELETE", endpoint, NoDict, 204)
    IN  IF ClientRaises(status, req.expect)
        THEN Call("delete_component", self, args, <<req>>, status, NoDict,
                  "UnexpectedResponseError", None, self)
        ELSE Call("delete_component", self, args, <<req>>, status, NoDict,
                  "none", None, self)

(* ------------------------------------------------------------------ *)
(* Inputs                                                             *)
(* ------------------------------------------------------------------ *)

S(x) == Str(<<x>>)

EmptyStr == Str(<<>>)

\* Two Account objects with the same account id, and a third with another.
Acct1 == Account(1, S("a1"))

Acct1b == Account(2, S("a1"))

Acct2 == Account(3, S("a2"))

\* Constructor arguments of the devices followed.
InitArgs ==
    { [account |-> Acct1, device_id |-> S("d1"), name |-> S("n0"),
       status |-> S("created"), gateway_id |-> None, domain_id |-> S("dom"),
       created_on |-> PyInt(1500)],
      [account |-> Acct2, device_id |-> S("d2"), name |-> S("n0"),
       status |-> S("active"), gateway_id |-> S("g0"), domain_id |-> S("dom"),
       created_on |-> Datetime(2, 0)] }

Construct(a) ==
    DeviceInit(a.account, a.device_id, a.name, a.status, a.gateway_id,
               a.domain_id, a.created_on)

\* A keyword argument left out of the call.
Omitted == [t |-> "omitted", v |-> <<>>]

KwArgs(f) == Restrict(f, {k \in DOMAIN f : f[k] # Omitted})

\* set_properties arguments of the calls followed in sequence: calls with
\* one parameter, falsy and truthy, and calls with several.
PropertyArgs ==
    { NoDict,
      [name |-> EmptyStr],
      [name |-> S("n1")],
      [name |-> S("n2")],
      [gateway_id |-> S("g1")],
      [loc |-> List(<<"1.0", "2.0">>)],
      [tags |-> List(<<>>)],
      [tags |-> List(<<"t1">>)],
      [attributes |-> Dict(<<"k=v">>)],
      [name |-> EmptyStr, tags |-> None],
      [name |-> S("n1"), gateway_id |-> None, attributes |-> Dict(<<>>)],
      [gateway_id |-> S("g1"), name |-> S("n2"), loc |-> List(<<"1.0", "2.0">>),
       tags |-> List(<<"t1">>), attributes |-> Dict(<<"k=v">>)] }

\* Every kind of argument for every parameter: omitted, None, empty
\* string, empty collection, truthy.
PropertyKinds(truthy) ==
    {Omitted, None, EmptyStr, List(<<>>), Dict(<<>>)} \cup truthy

AllPropertyArgs ==
    { KwArgs([gateway_id |-> g, name |-> n, loc |-> l, tags |-> tg,
              attributes |-> a]) :
        g \in PropertyKinds({S("g1")}),
        n \in PropertyKinds({S("n1"), S("n2")}),
        l \in PropertyKinds({List(<<"1.0", "2.0">>)}),
        tg \in PropertyKinds({List(<<"t1">>)}),
        a \in PropertyKinds({Dict(<<"k=v">>)}) }

ActivateArgs ==
    { KwArgs([activation_code |-> c]) :
        c \in {Omitted, None, EmptyStr, S("code1")} }

\* What account.get_activation_code() can do.
AccountAnswers ==
    { [exc |-> "none", code |-> S("code2")],
      [exc |-> "UnexpectedResponseError", code |-> None] }

\* The answers that matter to a call: one when the caller gives a code.
AccountAnswersFor(args) ==
    IF Get(args, "activation_code") = None
    THEN AccountAnswers
    ELSE { [exc |-> "none", code |-> S("code2")] }

\* JSON bodies of the server's answers.
Bodies(status) ==
    CASE status = 200 -> { NoDict, [deviceToken |-> S("token")] }
      [] status = 201 ->
           { NoDict,
             [cid |-> S("c9"), name |-> S("temp"), type |-> S("sensor.v1.0")] }
      [] OTHER -> { NoDict }

ComponentArgs ==
    { KwArgs([name |-> S("temp"), component_type |-> S("sensor"), cid |-> c]) :
        c \in {Omitted, None, EmptyStr, S("c1")} }

ComponentIds == { S("c1"), Uuid4(1) }

\* JSON mappings handed to from_json: every subset of the keys.
FullJson ==
    { [deviceId |-> S("d1"), name |-> S("n0"), status |-> S("created"),
       gatewayId |-> S("g0"), domainId |-> S("dom"), created |-> PyInt(1500)],
      [deviceId |-> S("d2"), name |-> S("n1"), status |-> S("active"),
       gatewayId |-> S("g1"), domainId |-> S("dom"), created |-> PyInt(2000)] }

JsonDicts == UNION { { Restrict(j, K) : K \in SUBSET DOMAIN j } : j \in FullJson }

\* Right-hand sides of ==: devices, and values that are no device.
OtherDevices ==
    { DeviceInit(a, d, n, st, g, S("dom"), c).obj :
        a \in {Acct1, Acct1b, Acct2},
        d \in {S("d1"), S("d2")},
        n \in {S("n0"), S("n1")},
        st \in {S("created"), S("active")},
        g \in {None, S("g0")},
        c \in {PyInt(1500), Datetime(2, 0)} }

Others == OtherDevices \cup { None, S("d1"), PyInt(5) }

(* ------------------------------------------------------------------ *)
(* The state machine                                                  *)
(* ------------------------------------------------------------------ *)

Init ==
    \E a \in InitArgs :
        /\ dev = Construct(a).obj.d
        /\ log = [op |-> "__init__", args |-> a, before |-> NoDict,
                  trace |-> <<>>, status |-> 0, body |-> NoDict,
                  exc |-> Construct(a).exc, result |-> None]
        /\ uuid_state = 0
        /\ generated = <<>>
        /\ last_sent = NoDict
        /\ ctor = [account |-> a.account, device_id |-> a.device_id,
                   dict |-> Construct(a).obj.d]

\* A call that draws no uuid.
Step(c) ==
    /\ dev' = c.dev
    /\ log' = c.log
    /\ UNCHANGED <<uuid_state, generated, ctor>>

\* The values Python takes for false among those passed here.
Falsy == {None, EmptyStr, List(<<>>), Dict(<<>>)}

\* The arguments given with a truthy value.
TruthyArgs(args) == Restrict(args, {k \in DOMAIN args : args[k] \notin Falsy})

DoDelete ==
    \E status \in Statuses :
        /\ Step(Delete(dev, status))
        /\ UNCHANGED last_sent

DoActivate ==
    \E args \in ActivateArgs, status \in Statuses :
        \E acct \in AccountAnswersFor(args), body \in Bodies(status) :
            /\ Step(Activate(dev, args, acct, status, body))
            /\ UNCHANGED last_sent

SetPropertiesOver(argset) ==
    \E args \in argset, status \in Statuses :
        /\ Step(SetProperties(dev, args, status))
        /\ last_sent' = IF status = 200
                        THEN Update(last_sent, TruthyArgs(args))
                        ELSE last_sent

DoSetProperties == SetPropertiesOver(PropertyArgs)

Drawn(c) == \E i \in 1..Len(c.log.trace) : c.log.trace[i].kind = "uuid4"

DoAddComponent ==
    \E args \in ComponentArgs, status \in Statuses :
        \E body \in Bodies(status) :
            LET c == AddComponent(dev, args, Uuid4(uuid_state + 1), status, body)
            IN  /\ Drawn(c) => uuid_state < MaxUuid
                /\ dev' = c.dev
                /\ log' = c.log
                /\ uuid_state' = IF Drawn(c) THEN uuid_state + 1 ELSE uuid_state
                /\ generated' =
                     IF Drawn(c)
                     THEN Append(generated,
                                 c.log.trace[Len(c.log.trace)].data["cid"])
                     ELSE generated
                /\ UNCHANGED <<last_sent, ctor>>

DoDeleteComponent ==
    \E id \in ComponentIds, status \in Statuses :
        /\ Step(DeleteComponent(dev, [component_id |-> id], status))
        /\ UNCHANGED last_sent

Next ==
    \/ DoDelete
    \/ DoActivate
    \/ DoSetProperties
    \/ DoAddComponent
    \/ DoDeleteComponent

Spec == Init /\ [][Next]_vars

\* One set_properties call on a fresh device, over every kind of argument.
DoSetPropertiesFresh ==
    /\ log.op = "__init__"
    /\ SetPropertiesOver(AllPropertyArgs)

SpecPayload == Init /\ [][DoSetPropertiesFresh]_vars

\* The functions that touch no state: from_json and ==.
DoFromJson ==
    \E account \in {Acct1, Acct2}, j \in JsonDicts :
        LET r == FromJson(account, j)
        IN  /\ log' = [op |-> "from_json",
                       args |-> [account |-> account, json_dict |-> Json(j)],
                       before |-> dev, trace |-> <<>>, status |-> 0,
                       body |-> NoDict, exc |-> r.exc, result |-> r.obj]
            /\ UNCHANGED <<dev, uuid_state, generated, last_sent, ctor>>

DoEq ==
    \E other \in Others :
        /\ log' = [op |-> "__eq__", args |-> [other |-> other],
                   before |-> dev, trace |-> <<>>, status |-> 0,
                   body |-> NoDict, exc |-> "none",
                   result |-> DeviceEq(Object(dev), other)]
        /\ UNCHANGED <<dev, uuid_state, generated, last_sent, ctor>>

NextPure == DoFromJson \/ DoEq

SpecPure == Init /\ [][NextPure]_vars

(* ------------------------------------------------------------------ *)
(* Properties                                                         *)
(* ------------------------------------------------------------------ *)

\* The requests of the last call, in order.
IsRequest(e) == e.kind \in {"GET", "PUT", "POST", "DELETE"}

Requests == SelectSeq(log.trace, IsRequest)

Count(kind) == Cardinality({i \in 1..Len(log.trace) : log.trace[i].kind = kind})

RemoteOps ==
    {"delete", "activate", "set_properties", "add_component", "delete_component"}

\* The status each operation takes for success.
ExpectedCode(op) ==
    CASE op \in {"delete", "delete_component"} -> 204
      [] op \in {"activate", "set_properties"} -> 200
      [] op = "add_component" -> 201

\* C1: whenever an operation's request is answered with a status other
\* than the operation's expected code (204 delete and delete_component,
\* 200 activate and set_properties, 201 add_component), the operation
\* raises UnexpectedResponseError and does not complete as a success.
C1_UnexpectedStatusRaises ==
    (/\ log.op \in RemoteOps
     /\ Len(Requests) > 0
     /\ log.status # ExpectedCode(log.op))
    => log.exc = "UnexpectedResponseError"

C1_Witness ==
    /\ log.op = "delete"
    /\ log.status = 200
    /\ log.exc = "UnexpectedResponseError"

\* C2: the payload set_properties sends holds exactly the parameters given
\* with a truthy value, each with the value given, and nothing for a
\* parameter that was omitted, None, an empty string or an empty
\* collection, nor for the device object itself.
C2_PayloadIsTruthyArgs ==
    log.op = "set_properties" =>
        LET payload == log.trace[1].data
        IN  /\ DOMAIN payload =
                 {k \in PropertyParams :
                     k \in DOMAIN log.args /\ log.args[k] \notin Falsy}
            /\ \A k \in DOMAIN payload : payload[k] = log.args[k]
            /\ "self" \notin DOMAIN payload

C2_Witness ==
    /\ log.op = "set_properties"
    /\ log.args = [name |-> EmptyStr, tags |-> None, gateway_id |-> S("g1"),
                   attributes |-> Dict(<<>>)]
    /\ log.trace[1].data = [gateway_id |-> S("g1")]

\* Every field is what the last successful set_properties sent for it, or,
\* when none sent it, what the constructor left.
FieldsAreLastSent ==
    /\ DOMAIN dev = DOMAIN ctor.dict \cup DOMAIN last_sent
    /\ \A k \in DOMAIN dev :
          dev[k] = IF k \in DOMAIN last_sent THEN last_sent[k] ELSE ctor.dict[k]

\* C3: after a successful set_properties every field named in the payload
\* holds the value sent, every other field (device_id, account, status,
\* domain_id, created_on, url and the updatable fields not sent) holds the
\* value it had before the call, and over any sequence of calls each
\* updatable field holds the last truthy value sent for it.
C3_MergeOnSuccess ==
    (log.op = "set_properties" /\ log.exc = "none") =>
        LET payload == log.trace[1].data
        IN  /\ \A k \in DOMAIN payload : k \in DOMAIN dev /\ dev[k] = payload[k]
            /\ \A k \in DOMAIN log.before \ DOMAIN payload :
                  k \in DOMAIN dev /\ dev[k] = log.before[k]
            /\ DOMAIN dev = DOMAIN log.before \cup DOMAIN payload
            /\ \A k \in DOMAIN last_sent : dev[k] = last_sent[k]

C3_Witness ==
    /\ log.op = "set_properties"
    /\ log.exc = "none"
    /\ log.args = [name |-> EmptyStr, tags |-> None]
    /\ log.before["name"] = S("n2")
    /\ dev["name"] = S("n2")
    /\ dev["gateway_id"] = S("g1")
    /\ "tags" \notin DOMAIN dev

C5_FromJsonToleratesMissingKeys ==
    log.op = "from_json" =>
        LET j == log.args["json_dict"].d
        IN  /\ log.exc = "none"
            /\ log.result.t = "Device"
            /\ log.result.d["device_id"] = Get(j, "deviceId")
            /\ log.result.d["name"] = Get(j, "name")
            /\ log.result.d["status"] = Get(j, "status")
            /\ log.result.d["gateway_id"] = Get(j, "gatewayId")
            /\ log.result.d["domain_id"] = Get(j, "domainId")
            /\ "created" \notin DOMAIN j => log.result.d["created_on"] = None

\* The url the constructor's account id and device id give.
BaseUrl ==
    <<"/accounts/">> \o ctor.account.account_id.v
        \o <<"/devices/">> \o ctor.device_id.v

\* C6: whatever calls were made, successful or failed, url is
\* "/accounts/{accountId}/devices/{deviceId}" of the constructor's ids,
\* device_id and account are the constructor's, and every request goes to
\* url, url/activation, url/components or url/components/{componentId}.
C6_UrlIsFixed ==
    /\ dev["url"] = Str(BaseUrl)
    /\ dev["device_id"] = ctor.device_id
    /\ dev["account"] = ctor.account
    /\ \A i \in 1..Len(Requests) :
          LET u == Requests[i].url.v
          IN  \/ u = BaseUrl
              \/ u = BaseUrl \o <<"/activation">>
              \/ u = BaseUrl \o <<"/components">>
              \/ \E id \in ComponentIds : u = BaseUrl \o <<"/components/">> \o id.v

C6_Witness ==
    /\ log.op = "delete_component"
    /\ log.exc = "UnexpectedResponseError"
    /\ log.before["name"] = S("n2")
    /\ log.before["gateway_id"] = S("g1")
    /\ Requests[1].url.v = BaseUrl \o <<"/components/", "c1">>

\* C7: the payload of set_properties uses only the keys gatewayId, name,
\* loc, tags and attributes.
C7_PayloadKeys ==
    log.op = "set_properties" =>
        DOMAIN log.trace[1].data
            \subseteq {"gatewayId", "name", "loc", "tags", "attributes"}

\* What add_component does when `given` tells whether the caller passed a
\* cid: the request is one POST to url/components with {cid, name, type};
\* a cid that was given is sent as it is and none is drawn; otherwise one
\* identifier is drawn and sent, distinct from every one drawn before; on
\* 201 the body is returned as it came and no field changes.
AddComponentContract(given) ==
    LET cid == Get(log.args, "cid")
        req == Requests[1]
    IN  /\ Len(Requests) = 1
        /\ req.kind = "POST"
        /\ req.url = Str(dev["url"].v \o <<"/components">>)
        /\ DOMAIN req.data = {"cid", "name", "type"}
        /\ req.data["name"] = log.args["name"]
        /\ req.data["type"] = log.args["component_type"]
        /\ given => req.data["cid"] = cid /\ Count("uuid4") = 0
        /\ ~given =>
              /\ Count("uuid4") = 1
              /\ Len(generated) > 0
              /\ req.data["cid"] = generated[Len(generated)]
        /\ \A i, j \in 1..Len(generated) : i # j => generated[i] # generated[j]
        /\ log.status = 201 =>
              /\ log.exc = "none"
              /\ log.result = Json(log.body)
              /\ dev = log.before

C9_ActivateOrder ==
    log.op = "activate" =>
        LET code == Get(log.args, "activation_code")
            put  == Requests[1]
            ask  == log.trace[1]
        IN  /\ code = None =>
                 /\ Count("get_activation_code") = 1
                 /\ ask.kind = "get_activation_code"
                 /\ IF "code" \in DOMAIN ask.data
                    THEN /\ Len(log.trace) = 2
                         /\ Len(Requests) = 1
                         /\ put.data = [activationCode |-> ask.data["code"]]
                    ELSE /\ Len(Requests) = 0
                         /\ log.exc # "none"
            /\ code # None =>
                 /\ Count("get_activation_code") = 0
                 /\ Len(Requests) = 1
                 /\ put.data = [activationCode |-> code]
            /\ Len(Requests) = 1 =>
                 /\ put.kind = "PUT"
                 /\ put.url = Str(dev["url"].v \o <<"/activation">>)
                 /\ log.status = 200 =>
                      /\ log.exc = "none"
                      /\ log.result = IF "deviceToken" \in DOMAIN log.body
                                      THEN log.body["deviceToken"]
                                      ELSE None

C9_Witness ==
    /\ log.op = "activate"
    /\ log.args = NoDict
    /\ Len(log.trace) = 2
    /\ log.trace[1].data = [code |-> S("code2")]
    /\ log.trace[2].data = [activationCode |-> S("code2")]
    /\ log.status = 200
    /\ log.body = NoDict
    /\ log.exc = "none"
    /\ log.result = None

\* C10: when an operation's request is answered with a status other than
\* the expected one, the object is as it was before the call and exactly
\* one request was issued; so whatever failed and successful
\* set_properties calls were made, the fields reflect the successful ones
\* only.
C10_FailureChangesNothing ==
    /\ (/\ log.op \in RemoteOps
        /\ Len(Requests) > 0
        /\ log.status # ExpectedCode(log.op))
       => (dev = log.before /\ Len(Requests) = 1)
    /\ FieldsAreLastSent

C10_Witness ==
    /\ log.op = "set_properties"
    /\ log.exc = "UnexpectedResponseError"
    /\ log.trace[1].data = [name |-> S("n1")]
    /\ dev["name"] = S("n2")
    /\ last_sent = [name |-> S("n2"), gateway_id |-> S("g1")]
    /\ Len(Requests) = 1

====
